---- MODULE Spec2Model ----
(***************************************************************************)
(* A model of the three programs of pokeca-recommender:                    *)
(*   - notebooks/getDeckFromLeagues.ipynb : datetime_transform and the     *)
(*     gym / city ingestion loops writing into the TinyDB document store;  *)
(*   - notebooks/getPokemonName.ipynb     : the name table builder writing *)
(*     into the sqlite table pokemon_name;                                 *)
(*   - service/static/script.js           : the autocomplete client.       *)
(*                                                                         *)
(* Text is a sequence of characters, each character a one-element string   *)
(* token.  Characters outside ASCII are written by name:                   *)
(*   "nen" = U+5E74, "gatsu" = U+6708, "nichi" = U+65E5, "do" = U+571F,    *)
(*   "fw2" = U+FF12 (FULLWIDTH DIGIT TWO), "fw7" = U+FF17,                 *)
(*   "half" = U+00BD (VULGAR FRACTION ONE HALF), "LF" = the line break.    *)
(***************************************************************************)
EXTENDS Integers, Sequences, FiniteSets, TLC

VARIABLES
    \* ---- datetime_transform, called on its own
    input_str,      \* the argument of the call being prepared / made
    nPieces,        \* how many pieces the caller has concatenated into it
    output_str,     \* datetime_transform(input_str), once called
    output_again,   \* datetime_transform(output_str), once called again
    dpc             \* "build" | "called" | "again"

dateVars == <<input_str, nPieces, output_str, output_again, dpc>>

VARIABLES
    \* ---- getDeckFromLeagues.ipynb: the kernel's names and the document store
    DB,             \* the documents of TinyDB's default table, in doc_id order
    gym_decks,      \* crawl_gym_decks' result: <<[date, venues]>>, in dict order
    gymCrawled,     \* gym_decks is bound
    city_decks,     \* crawl_result_pages' result: <<[date, decks]>>, in dict order
    cityCrawled,    \* city_decks is bound
    cityStatus,     \* how the last run of the city loop ended: "none" | "ok" | "NameError"
    cityInserted,   \* the documents the last run of the city loop inserted
    nGym,           \* runs of the gym loop since the store was last cleared
    nCity,          \* runs of the city loop since the store was last cleared
    singleGym,      \* documents the first of those gym runs inserted
    singleCity      \* documents the first of those city runs inserted

deckVars == <<DB, gym_decks, gymCrawled, city_decks, cityCrawled, cityStatus,
              cityInserted, nGym, nCity, singleGym, singleCity>>

VARIABLES
    \* ---- getPokemonName.ipynb: one Run All of the notebook after another
    npc,            \* "idle" | "cell3" | "cell4" | "done" | "aborted"
    conn,           \* the sqlite connection: "none" | "open" | "closed"
    driver,         \* the browser session: "none" | "open" | "closed"
    pokemon_name,   \* the table's rows [id, number, name_jp, name_tw], in rowid order
    rows,           \* the row_data of the table rows this run scraped, in
                    \* order (<<>> until cell 3 binds it: nothing reads the
                    \* binding an earlier run left)
    scraped,        \* this run's cell 3 got as far as binding rows
    srcRow,         \* for each stored row, the index in rows it was made from
    cellError,      \* the exception that ended cell 3, "none" when none did
    nRuns,          \* runs started
    nDropped        \* rows the table held when this run's cell 2 dropped it

nameVars == <<npc, conn, driver, pokemon_name, rows, scraped, srcRow,
              cellError, nRuns, nDropped>>

VARIABLES
    \* ---- service/static/script.js: the autocomplete client
    value,           \* cardNameInput.value, a sequence of UTF-16 code units
    pending,         \* the fetches in flight: [id, query]
    suggestionsList, \* the textContent of the <li> children of suggestionsList
    nIssued,         \* fetches issued so far
    nProcessed,      \* responses whose data the second then callback has rendered
    lastId,          \* the fetch whose response was rendered last
    lastData         \* the data of that response

autoVars == <<value, pending, suggestionsList, nIssued, nProcessed, lastId,
              lastData>>

vars == <<dateVars, deckVars, nameVars, autoVars>>

-----------------------------------------------------------------------------
(* Bounds *)

MaxPieces == 4
MaxDates == 2       \* dates in one crawler result
MaxVenues == 1      \* venues under one date of the gym crawler's result
MaxDecks == 1       \* decks in one deck list
MaxRuns == 2        \* runs of one ingestion loop between two clears
MaxRows == 2        \* table rows in one scrape
MaxNameRuns == 2    \* runs of the name table notebook
MaxRequests == 3    \* fetches the client issues

-----------------------------------------------------------------------------
(* datetime_transform  (getDeckFromLeagues.ipynb, cell 7) *)

NEN == "nen"
GATSU == "gatsu"
NICHI == "nichi"
DOT == "."

\* The characters \d matches in a str pattern: every Unicode decimal digit,
\* the fullwidth ones included.
UnicodeDigits == {"0", "1", "2", "4", "6", "7", "fw2", "fw7"}

IsDigit(c) == c \in UnicodeDigits

\* Length of any text matched by (\d{4})<nen>(\d{2})<gatsu>(\d{2})<nichi>.
PatternLen == 11

\* The pattern matches the PatternLen characters of s that start at i.
MatchAt(s, i) ==
    /\ i >= 1
    /\ i + PatternLen - 1 <= Len(s)
    /\ \A k \in 0..3 : IsDigit(s[i + k])
    /\ s[i + 4] = NEN
    /\ \A k \in 5..6 : IsDigit(s[i + k])
    /\ s[i + 7] = GATSU
    /\ \A k \in 8..9 : IsDigit(s[i + k])
    /\ s[i + 10] = NICHI

\* re.match: the pattern is tried at the start of the text only.
re_match_only(s, i) ==
    IF MatchAt(s, i) THEN i ELSE 0

\* re.search: scan from position i and return the first position at which
\* the pattern matches, 0 (None) when there is none.
RECURSIVE re_search(_, _)
re_search(s, i) ==
    IF i + PatternLen - 1 > Len(s) THEN 0
    ELSE IF MatchAt(s, i) THEN i
    ELSE re_search(s, i + 1)

\* match.groups() for a match at i, formatted as f"{year}.{month}.{day}".
FormatGroups(s, i) ==
    SubSeq(s, i, i + 3) \o <<DOT>> \o SubSeq(s, i + 5, i + 6)
        \o <<DOT>> \o SubSeq(s, i + 8, i + 9)

\* re.sub(pattern, r"\1.\2.\3", input_str, count=1): the text around the
\* match is kept.
datetime_transform_sub(s) ==
    LET m == re_search(s, 1)
    IN  IF m # 0
        THEN SubSeq(s, 1, m - 1) \o FormatGroups(s, m)
                 \o SubSeq(s, m + PatternLen, Len(s))
        ELSE s

datetime_transform(s) ==
    LET m == re_search(s, 1)
    IN  IF m # 0 THEN FormatGroups(s, m) ELSE s

-----------------------------------------------------------------------------
(* Callers of datetime_transform: the pieces an argument is made of. *)

\* 2024<nen>04<gatsu>06<nichi>
LocaleDate ==
    <<"2", "0", "2", "4", NEN, "0", "4", GATSU, "0", "6", NICHI>>

\* (<do>), the weekday annotation
Weekday == <<"(", "do", ")">>

CanonDate == <<"2", "0", "2", "4", DOT, "0", "4", DOT, "0", "6">>

Pieces ==
    { LocaleDate,
      <<"2", "0", "2", "4", NEN>>,
      <<"0", "4", GATSU>>,
      <<"0", "6", NICHI>>,
      <<"6", NICHI>>,
      <<"fw2">>,
      <<"1">>,
      Weekday,
      CanonDate }

NoText == <<"?">>

InitDate ==
    /\ input_str = <<>>
    /\ nPieces = 0
    /\ output_str = NoText
    /\ output_again = NoText
    /\ dpc = "build"

\* The caller extends the argument by one piece.
AppendPiece(p) ==
    /\ dpc = "build"
    /\ nPieces < MaxPieces
    /\ input_str' = input_str \o p
    /\ nPieces' = nPieces + 1
    /\ UNCHANGED <<output_str, output_again, dpc, deckVars, nameVars, autoVars>>

\* output_str = datetime_transform(input_str)
CallTransform ==
    /\ dpc = "build"
    /\ output_str' = datetime_transform(input_str)
    /\ dpc' = "called"
    /\ UNCHANGED <<input_str, nPieces, output_again, deckVars, nameVars, autoVars>>

\* output_again = datetime_transform(output_str)
CallTransformAgain ==
    /\ dpc = "called"
    /\ output_again' = datetime_transform(output_str)
    /\ dpc' = "again"
    /\ UNCHANGED <<input_str, nPieces, output_str, deckVars, nameVars, autoVars>>

NextDate ==
    \/ \E p \in Pieces : AppendPiece(p)
    \/ CallTransform
    \/ CallTransformAgain

-----------------------------------------------------------------------------
(* getDeckFromLeagues.ipynb: the document store and the ingestion loops *)

SeqsUpTo(S, n) == UNION {[1..k -> S] : k \in 0..n}

RoleKeys == {"pokemons", "tools", "supporters", "stadiums", "energies"}

\* A deck as the gym crawler returns it.
GymDeck ==
    [pokemons |-> <<"pikachu">>, tools |-> <<"ball">>, supporters |-> <<>>,
     stadiums |-> <<>>, energies |-> <<"lightning">>]

\* A deck as the city crawler returns it: the five role lists among its keys.
CityDeck ==
    [pokemons |-> <<"eevee">>, tools |-> <<>>, supporters |-> <<"boss">>,
     stadiums |-> <<>>, energies |-> <<"fire">>, deck_code |-> <<"xY8c">>]

\* The date keys a crawler may return: locale format with the weekday, or
\* canonical.
DateKeys == {LocaleDate \o Weekday, CanonDate}

DistinctDates(d) ==
    \A i, j \in 1..Len(d) : i # j => d[i].date # d[j].date

\* The results crawl_gym_decks may return: date -> venue -> deck list.
GymOutputs ==
    {g \in SeqsUpTo([date : DateKeys,
                     venues : SeqsUpTo(SeqsUpTo({GymDeck}, MaxDecks), MaxVenues)],
                    MaxDates) : DistinctDates(g)}

\* The results crawl_result_pages may return: date -> deck list.
CityOutputs ==
    {c \in SeqsUpTo([date : DateKeys, decks : SeqsUpTo({CityDeck}, MaxDecks)],
                    MaxDates) : DistinctDates(c)}

\* DB.insert(document) as an upsert by content.
DBUpsert(db, document) ==
    IF \E i \in 1..Len(db) : db[i] = document THEN db ELSE Append(db, document)

\* DB.insert(document): the document gets the next doc_id.
DBInsert(db, document) == Append(db, document)

\* for deck in deck_list: DB.insert({"date": date, "league": "gym", "deck": deck})
RECURSIVE GymDeckLoop(_, _, _, _)
GymDeckLoop(db, date, deck_list, i) ==
    IF i > Len(deck_list) THEN db
    ELSE GymDeckLoop(
             DBInsert(db, [date |-> date, league |-> "gym", deck |-> deck_list[i]]),
             date, deck_list, i + 1)

\* for _, deck_list in decks.items():
RECURSIVE GymVenueLoop(_, _, _, _)
GymVenueLoop(db, date, venues, i) ==
    IF i > Len(venues) THEN db
    ELSE GymVenueLoop(GymDeckLoop(db, date, venues[i], 1), date, venues, i + 1)

\* for date, decks in gym_decks.items():
RECURSIVE GymLoop(_, _, _)
GymLoop(db, gym, i) ==
    IF i > Len(gym) THEN db
    ELSE GymLoop(GymVenueLoop(db, gym[i].date, gym[i].venues, 1), gym, i + 1)

\* The names the city loop's body can read when it builds the document: the
\* kernel's globals plus what the loop has bound.  No cell binds tmp.
CityLoopNames ==
    {"DB", "city_decks", "datetime_transform", "date", "decks", "deck", "temp"}

\* for deck in decks: temp = {...}; document = {..., "deck": tmp}; DB.insert(document)
\* st is [db, status]; the loop ends at the first NameError.
RECURSIVE CityDeckLoop(_, _, _, _)
CityDeckLoop(st, date, decks, i) ==
    IF i > Len(decks) THEN st
    ELSE LET temp == [k \in RoleKeys |-> decks[i][k]]
         IN  IF "tmp" \notin CityLoopNames
             THEN [st EXCEPT !.status = "NameError"]
             ELSE CityDeckLoop(
                      [st EXCEPT !.db = DBInsert(st.db,
                          [date |-> date, league |-> "city", deck |-> temp])],
                      date, decks, i + 1)

\* for date, decks in city_decks.items(): date = datetime_transform(date); ...
RECURSIVE CityLoop(_, _, _)
CityLoop(st, city, i) ==
    IF i > Len(city) \/ st.status # "ok" THEN st
    ELSE CityLoop(CityDeckLoop(st, datetime_transform(city[i].date),
                               city[i].decks, 1),
                  city, i + 1)

InitDeck ==
    /\ DB = <<>>
    /\ gym_decks = <<>>
    /\ gymCrawled = FALSE
    /\ city_decks = <<>>
    /\ cityCrawled = FALSE
    /\ cityStatus = "none"
    /\ cityInserted = <<>>
    /\ nGym = 0
    /\ nCity = 0
    /\ singleGym = 0
    /\ singleCity = 0

\* Cell 3: DB.drop_tables()
DropTables ==
    /\ DB' = <<>>
    /\ nGym' = 0
    /\ nCity' = 0
    /\ singleGym' = 0
    /\ singleCity' = 0
    /\ UNCHANGED <<gym_decks, gymCrawled, city_decks, cityCrawled, cityStatus,
                   cityInserted, dateVars, nameVars, autoVars>>

\* Cell 4: gym_decks = crawl_gym_decks(...), run once in a session.
CrawlGym(g) ==
    /\ ~gymCrawled
    /\ gym_decks' = g
    /\ gymCrawled' = TRUE
    /\ UNCHANGED <<DB, city_decks, cityCrawled, cityStatus, cityInserted,
                   nGym, nCity, singleGym, singleCity, dateVars, nameVars, autoVars>>

\* Cell 5: the gym ingestion loop.
GymIngest ==
    /\ gymCrawled
    /\ nGym < MaxRuns
    /\ DB' = GymLoop(DB, gym_decks, 1)
    /\ nGym' = nGym + 1
    /\ singleGym' = IF nGym = 0 THEN Len(DB') - Len(DB) ELSE singleGym
    /\ UNCHANGED <<gym_decks, gymCrawled, city_decks, cityCrawled, cityStatus,
                   cityInserted, nCity, singleCity, dateVars, nameVars, autoVars>>

\* Cell 8: city_decks = crawl_result_pages(...), run once in a session.
CrawlCity(c) ==
    /\ ~cityCrawled
    /\ city_decks' = c
    /\ cityCrawled' = TRUE
    /\ UNCHANGED <<DB, gym_decks, gymCrawled, cityStatus, cityInserted,
                   nGym, nCity, singleGym, singleCity, dateVars, nameVars, autoVars>>

\* Cell 9: the city ingestion loop.
CityIngest ==
    /\ cityCrawled
    /\ nCity < MaxRuns
    /\ LET end == CityLoop([db |-> DB, status |-> "ok"], city_decks, 1)
       IN  /\ DB' = end.db
           /\ cityStatus' = end.status
           /\ cityInserted' = SubSeq(end.db, Len(DB) + 1, Len(end.db))
    /\ nCity' = nCity + 1
    /\ singleCity' = IF nCity = 0 THEN Len(DB') - Len(DB) ELSE singleCity
    /\ UNCHANGED <<gym_decks, gymCrawled, city_decks, cityCrawled, nGym,
                   singleGym, dateVars, nameVars, autoVars>>

NextDeck ==
    \/ DropTables
    \/ \E g \in GymOutputs : CrawlGym(g)
    \/ GymIngest
    \/ \E c \in CityOutputs : CrawlCity(c)
    \/ CityIngest
-----------------------------------------------------------------------------
(* getPokemonName.ipynb: the name table builder *)

LF == "LF"

\* Characters str.isnumeric() accepts: the decimal digits and other numeric
\* characters such as U+00BD.
NumericChars == UnicodeDigits \cup {"half"}

\* number.isnumeric(): at least one character, all of them numeric.
isnumeric(t) == Len(t) > 0 /\ \A k \in 1..Len(t) : t[k] \in NumericChars

\* int() reads decimal digits only.
IntReadable(t) == Len(t) > 0 /\ \A k \in 1..Len(t) : t[k] \in UnicodeDigits

DigitValue(c) ==
    CASE c = "0" -> 0
      [] c = "1" -> 1
      [] c \in {"2", "fw2"} -> 2
      [] c = "4" -> 4
      [] c = "6" -> 6
      [] c \in {"7", "fw7"} -> 7

\* int(number) for a text int() can read.
RECURSIVE int(_)
int(t) ==
    IF t = <<>> THEN 0
    ELSE 10 * int(SubSeq(t, 1, Len(t) - 1)) + DigitValue(t[Len(t)])

\* name_tw stored as scraped.
keep_raw(t) == t

\* name_tw if "\n" not in name_tw else name_tw.split("\n")[0]
RECURSIVE first_line(_)
first_line(t) ==
    IF t = <<>> \/ Head(t) = LF THEN <<>>
    ELSE <<Head(t)>> \o first_line(Tail(t))

\* The cell texts a scrape may find.
NumberTexts == {<<"7">>, <<"0">>, <<"a">>, <<"half">>, <<"1", "2">>}
PlainNames == [tw |-> <<"t">>, jp |-> <<"j">>]
TwoLineNames == [tw |-> <<"t", LF, "s">>, jp |-> <<"j", LF, "k">>]
Filler == <<"x">>

\* row_data of one <tr>: no <td> at all (a header row), fewer <td> than the
\* loop indexes, or the full row.
RowDatas ==
    {<<>>, <<<<"7">>, Filler, <<"t">>>>}
    \cup {<<n, Filler, names.tw, Filler, Filler, Filler, names.jp>> :
             n \in NumberTexts, names \in {PlainNames, TwoLineNames}}

\* CREATE TABLE IF NOT EXISTS pokemon_name, without the DROP.
CreateIfNotExists(table) == table

\* DROP TABLE IF EXISTS pokemon_name; CREATE TABLE pokemon_name (...)
DropAndCreate(table) == <<>>

\* INSERT INTO pokemon_name (number, name_jp, name_tw): id is the next rowid.
InsertRow(table, number, name_jp, name_tw) ==
    Append(table,
           [id |-> IF table = <<>> THEN 1 ELSE table[Len(table)].id + 1,
            number |-> number, name_jp |-> name_jp, name_tw |-> name_tw])

\* for row in rows: ...   st is [table, src, error]; every INSERT is
\* committed at once, and the loop ends at the first exception.
RECURSIVE RowLoop(_, _, _)
RowLoop(st, rs, i) ==
    IF i > Len(rs) THEN st
    ELSE LET row_data == rs[i]
         IN  IF row_data = <<>> THEN RowLoop(st, rs, i + 1)
             ELSE IF Len(row_data) < 7 THEN [st EXCEPT !.error = "IndexError"]
             ELSE LET number == row_data[1]
                      name_jp == row_data[7]
                      name_tw == first_line(row_data[3])
                  IN  IF ~isnumeric(number) THEN RowLoop(st, rs, i + 1)
                      ELSE IF ~IntReadable(number)
                           THEN [st EXCEPT !.error = "ValueError"]
                      ELSE IF int(number) < 1 THEN RowLoop(st, rs, i + 1)
                      ELSE RowLoop(
                               [st EXCEPT
                                   !.table = InsertRow(st.table, int(number),
                                                       name_jp, name_tw),
                                   !.src = Append(st.src, i)],
                               rs, i + 1)

InitName ==
    /\ npc = "idle"
    /\ conn = "none"
    /\ driver = "none"
    /\ pokemon_name = <<>>
    /\ rows = <<>>
    /\ scraped = FALSE
    /\ srcRow = <<>>
    /\ cellError = "none"
    /\ nRuns = 0
    /\ nDropped = 0

\* Cell 2, the start of a run: connect, drop the table, create it.
Cell2 ==
    /\ npc \in {"idle", "done", "aborted"}
    /\ nRuns < MaxNameRuns
    /\ conn' = "open"
    /\ nDropped' = Len(pokemon_name)
    /\ pokemon_name' = DropAndCreate(pokemon_name)
    /\ rows' = <<>>
    /\ srcRow' = <<>>
    /\ scraped' = FALSE
    /\ cellError' = "none"
    /\ driver' = "none"
    /\ nRuns' = nRuns + 1
    /\ npc' = "cell3"
    /\ UNCHANGED <<dateVars, deckVars, autoVars>>

\* Cell 3, when webdriver.Chrome(), driver.get or a find_element(s) call
\* raises: the with statement quits the driver and the run ends there.
Cell3Raises ==
    /\ npc = "cell3"
    /\ driver' = "closed"
    /\ cellError' = "WebDriverException"
    /\ npc' = "aborted"
    /\ UNCHANGED <<conn, pokemon_name, rows, scraped, srcRow, nRuns, nDropped,
                   dateVars, deckVars, autoVars>>

\* Cell 3, when the page is fetched and rs are the rows scraped: the loop
\* over the rows.  The with statement quits the driver however its body
\* ends; an exception in the loop ends the run.
Cell3(rs) ==
    /\ npc = "cell3"
    /\ driver' = "closed"
    /\ LET end == RowLoop([table |-> pokemon_name, src |-> <<>>,
                           error |-> "none"], rs, 1)
       IN  /\ rows' = rs
           /\ scraped' = TRUE
           /\ pokemon_name' = end.table
           /\ srcRow' = end.src
           /\ cellError' = end.error
           /\ npc' = IF end.error = "none" THEN "cell4" ELSE "aborted"
    /\ UNCHANGED <<conn, nRuns, nDropped, dateVars, deckVars, autoVars>>

\* Cell 4: conn.close()
Cell4 ==
    /\ npc = "cell4"
    /\ conn' = "closed"
    /\ npc' = "done"
    /\ UNCHANGED <<driver, pokemon_name, rows, scraped, srcRow, cellError,
                   nRuns, nDropped, dateVars, deckVars, autoVars>>

NextName ==
    \/ Cell2
    \/ Cell3Raises
    \/ \E rs \in SeqsUpTo(RowDatas, MaxRows) : Cell3(rs)
    \/ Cell4
-----------------------------------------------------------------------------
(* service/static/script.js: the autocomplete client *)

\* The values the input field takes: "pika" typed one character at a time,
\* "eev" pasted, the field emptied.
InputValues ==
    {<<>>, <<"p">>, <<"p", "i">>, <<"p", "i", "k">>, <<"p", "i", "k", "a">>,
     <<"e", "e", "v">>}

\* The JSON arrays /api/suggestions may answer a query with.
Replies(query) == {<<>>, <<query>>, <<query, query \o <<"2">>>>}

\* data.forEach(item => list.appendChild(li(item)))
RECURSIVE forEach_appendChild(_, _)
forEach_appendChild(list, data) ==
    IF data = <<>> THEN list
    ELSE forEach_appendChild(Append(list, Head(data)), Tail(data))

\* The second then callback without list.innerHTML = ''.
render_without_clear(list, data) == forEach_appendChild(list, data)

\* The second then callback: list.innerHTML = ''; data.forEach(...)
render(list, data) == forEach_appendChild(<<>>, data)

InitAuto ==
    /\ value = <<>>
    /\ pending = {}
    /\ suggestionsList = <<>>
    /\ nIssued = 0
    /\ nProcessed = 0
    /\ lastId = 0
    /\ lastData = <<>>

\* The 'input' listener: the field's value is now v.
InputEvent(v) ==
    /\ v # value
    /\ value' = v
    /\ IF Len(v) > 2
       THEN /\ nIssued < MaxRequests
            /\ nIssued' = nIssued + 1
            /\ pending' = pending \cup {[id |-> nIssued + 1, query |-> v]}
       ELSE UNCHANGED <<nIssued, pending>>
    /\ UNCHANGED <<suggestionsList, nProcessed, lastId, lastData,
                   dateVars, deckVars, nameVars>>

\* The response of fetch r arrives with the JSON array data: both then
\* callbacks run, the second to completion before any other event.
ResponseArrives(r, data) ==
    /\ r \in pending
    /\ pending' = pending \ {r}
    /\ suggestionsList' = render(suggestionsList, data)
    /\ nProcessed' = nProcessed + 1
    /\ lastId' = r.id
    /\ lastData' = data
    /\ UNCHANGED <<value, nIssued, dateVars, deckVars, nameVars>>

\* fetch r is rejected, or its body is not JSON: no callback renders.
ResponseFails(r) ==
    /\ r \in pending
    /\ pending' = pending \ {r}
    /\ UNCHANGED <<value, suggestionsList, nIssued, nProcessed, lastId,
                   lastData, dateVars, deckVars, nameVars>>

NextAuto ==
    \/ \E v \in InputValues : InputEvent(v)
    \/ \E r \in pending : \E data \in Replies(r.query) : ResponseArrives(r, data)
    \/ \E r \in pending : ResponseFails(r)
-----------------------------------------------------------------------------

Init == InitDate /\ InitDeck /\ InitName /\ InitAuto

SpecDate == Init /\ [][NextDate]_vars

SpecDeck == Init /\ [][NextDeck]_vars

SpecName == Init /\ [][NextName]_vars

SpecAuto == Init /\ [][NextAuto]_vars

Next == NextDate \/ NextDeck \/ NextName \/ NextAuto

Spec == Init /\ [][Next]_vars

-----------------------------------------------------------------------------
(* Claims about datetime_transform *)

\* The positions of s at which the locale pattern occurs.
Occurrences(s) == {i \in 1..Len(s) : MatchAt(s, i)}

LeftmostOccurrence(s) ==
    CHOOSE i \in Occurrences(s) : \A j \in Occurrences(s) : i <= j

\* C1: a call of datetime_transform always returns, and returns one of two
\* results: when the argument contains 4 digits, <nen>, 2 digits, <gatsu>,
\* 2 digits, <nichi>, the ten characters year "." month "." day made of the
\* captured digits of the (first) occurrence and nothing of the text around
\* it; otherwise the argument unchanged.
C1_TransformResult ==
    dpc # "build" =>
        IF Occurrences(input_str) # {}
        THEN LET i == LeftmostOccurrence(input_str)
             IN  /\ Len(output_str) = 10
                 /\ SubSeq(output_str, 1, 4) = SubSeq(input_str, i, i + 3)
                 /\ output_str[5] = DOT
                 /\ SubSeq(output_str, 6, 7) = SubSeq(input_str, i + 5, i + 6)
                 /\ output_str[8] = DOT
                 /\ SubSeq(output_str, 9, 10) = SubSeq(input_str, i + 8, i + 9)
        ELSE output_str = input_str

\* C1 witness: the call was made on a date that is preceded by other text and
\* followed by the weekday annotation, and on it returned the canonical date.
C1_Witness ==
    /\ dpc = "called"
    /\ input_str = <<"1">> \o LocaleDate \o Weekday
    /\ output_str = CanonDate

\* C2: datetime_transform(datetime_transform(x)) = datetime_transform(x) for
\* every argument x: canonical, locale or unrecognized; and a canonical
\* argument is returned unchanged.
C2_Idempotent ==
    /\ dpc = "again" => output_again = output_str
    /\ (dpc # "build" /\ input_str = CanonDate) => output_str = CanonDate

\* C2 witness: both calls were made on an argument holding two locale dates,
\* the first call changed it and the second changed nothing.
C2_Witness ==
    /\ dpc = "again"
    /\ input_str = LocaleDate \o LocaleDate
    /\ output_str = CanonDate
    /\ output_again = CanonDate

-----------------------------------------------------------------------------
(* Claims about the ingestion loops *)

RECURSIVE Flatten(_)
Flatten(seqs) ==
    IF seqs = <<>> THEN <<>> ELSE Head(seqs) \o Flatten(Tail(seqs))

\* The documents the city loop is to insert for the crawler result c: one per
\* deck, in order, dated with the normalized date of the deck's batch.
CityDocuments(c) ==
    Flatten([i \in 1..Len(c) |->
        [j \in 1..Len(c[i].decks) |->
            [date |-> datetime_transform(c[i].date),
             league |-> "city",
             deck |-> [k \in RoleKeys |-> c[i].decks[j][k]]]]])

\* C4: a run of the city ingestion loop inserts exactly one document per deck
\* of the crawler's output, {date: normalized date, league: "city", deck: the
\* five role lists}, so as many documents as there are decks.
C4_CityInsertsOnePerDeck ==
    cityStatus # "none" => cityInserted = CityDocuments(city_decks)

GymKeys == {gym_decks[i].date : i \in 1..Len(gym_decks)}
CityKeys == {city_decks[i].date : i \in 1..Len(city_decks)}

\* C5: every document in the store, of either league, carries as its date the
\* Date Normalizer's output for a date key of that league's crawler result;
\* a locale-format key is persisted in canonical form.
C5_PersistedDatesNormalized ==
    \A i \in 1..Len(DB) :
        /\ DB[i].league = "gym" =>
               DB[i].date \in {datetime_transform(k) : k \in GymKeys}
        /\ DB[i].league = "city" =>
               DB[i].date \in {datetime_transform(k) : k \in CityKeys}

IsPrefix(a, b) == Len(a) <= Len(b) /\ SubSeq(b, 1, Len(a)) = a

\* C6: ingestion is append-only.  With k runs of each loop over the same
\* crawler output since the store was cleared, the store holds k times the
\* documents of a single run; and no step but the clearing of the store
\* changes or removes a document already in it.
C6_AppendOnly ==
    [][/\ Len(DB') = nGym' * singleGym' + nCity' * singleCity'
       /\ (DropTables \/ IsPrefix(DB, DB'))]_vars

\* C6 witness: both loops have run twice over the same output without a
\* clear in between, and the store holds every gym document twice.
C6_Witness ==
    /\ nGym = 2
    /\ nCity = 2
    /\ singleGym = 2
    /\ Len(DB) = 4
    /\ SubSeq(DB, 1, 2) = SubSeq(DB, 3, 4)

-----------------------------------------------------------------------------
(* Claims about the name table builder *)

\* The row has the columns the builder reads, its number column is made of
\* decimal digits, and the integer they write is at least 1.
HasPositiveNumber(r) ==
    /\ Len(r) >= 7
    /\ Len(r[1]) > 0
    /\ \A k \in 1..Len(r[1]) : r[1][k] \in UnicodeDigits
    /\ \E k \in 1..Len(r[1]) : r[1][k] # "0"

\* The indexes of the rows of rs that are to be inserted, in scrape order.
ToInsert(rs) ==
    LET idx == [i \in 1..Len(rs) |-> i]
        Keep(i) == HasPositiveNumber(rs[i])
    IN  SelectSeq(idx, Keep)

\* C3: once cell 3 has scraped the rows, no row has aborted the run, and the
\* rows inserted are exactly those whose number column is numeric with an
\* integer value of at least 1: every such row, also one after a skipped or
\* invalid row, and no other.
C3_InsertedIffPositiveNumber ==
    (scraped /\ npc \in {"cell4", "done", "aborted"}) =>
        /\ cellError = "none"
        /\ srcRow = ToInsert(rows)

\* The text of a cell before its first line break: the whole text when it
\* has none.
BeforeLineBreak(t) ==
    IF \E k \in 1..Len(t) : t[k] = LF
    THEN SubSeq(t, 1, (CHOOSE k \in 1..Len(t) :
                          t[k] = LF /\ \A j \in 1..(k - 1) : t[j] # LF) - 1)
    ELSE t

HasLineBreak(t) == \E k \in 1..Len(t) : t[k] = LF

\* The table a completed run over the rows rs is to leave.
TableOf(rs) ==
    LET ins == ToInsert(rs)
    IN  [n \in 1..Len(ins) |->
            [id |-> n,
             number |-> int(rs[ins[n]][1]),
             name_jp |-> rs[ins[n]][7],
             name_tw |-> BeforeLineBreak(rs[ins[n]][3])]]

\* C7: after a completed run the table holds exactly the valid rows of that
\* run, in scrape order, numbered from 1, whatever rows an earlier run left.
C7_RebuiltNotMerged ==
    npc = "done" => pokemon_name = TableOf(rows)

\* C7 witness: a second run completed, its cell 2 dropped rows of the first
\* run, and the table holds the second run's rows.
C7_Witness ==
    /\ npc = "done"
    /\ nRuns = 2
    /\ nDropped = 2
    /\ Len(pokemon_name) = 1
    /\ pokemon_name[1].number = 12

\* C8: of every stored row, both names, name_jp and name_tw, are the text of
\* their cell before its first line break; no stored name has a line break.
C8_BothNamesCleaned ==
    \A n \in 1..Len(pokemon_name) :
        /\ pokemon_name[n].name_tw = BeforeLineBreak(rows[srcRow[n]][3])
        /\ pokemon_name[n].name_jp = BeforeLineBreak(rows[srcRow[n]][7])
        /\ ~HasLineBreak(pokemon_name[n].name_tw)
        /\ ~HasLineBreak(pokemon_name[n].name_jp)

\* C8 as amended: of every stored row, name_tw is the text of its cell before
\* the first line break and has none, and name_jp is the text of its cell
\* as scraped.
C8_NameTwCleaned ==
    \A n \in 1..Len(pokemon_name) :
        /\ pokemon_name[n].name_tw = BeforeLineBreak(rows[srcRow[n]][3])
        /\ ~HasLineBreak(pokemon_name[n].name_tw)
        /\ pokemon_name[n].name_jp = rows[srcRow[n]][7]

\* C8 witness: a row whose two name cells both have a line break is stored,
\* name_tw cut at the break and name_jp with the break in it.
C8_Witness ==
    \E n \in 1..Len(pokemon_name) :
        /\ HasLineBreak(rows[srcRow[n]][3])
        /\ HasLineBreak(rows[srcRow[n]][7])
        /\ pokemon_name[n].name_tw = <<"t">>
        /\ pokemon_name[n].name_jp = <<"j", LF, "k">>

\* C9: when a run has ended, by completing or by an exception in cell 3, the
\* browser session is closed and the sqlite connection is closed.
C9_ReleasedOnEveryExit ==
    npc \in {"done", "aborted"} => (driver = "closed" /\ conn = "closed")

-----------------------------------------------------------------------------
(* Claims about the autocomplete client *)

\* C10: an input event issues a suggestions request if and only if the new
\* value is longer than 2 (String.length, UTF-16 code units); and whatever
\* the order in which responses arrive, once a response has been processed
\* the list holds exactly the items of the response processed last, in
\* order, and no item of another response.
C10_RequestIffLongAndListReplaced ==
    [][/\ \A v \in InputValues :
              InputEvent(v) =>
                  /\ (nIssued' = nIssued + 1) <=> (Len(v) > 2)
                  /\ (nIssued' = nIssued) <=> (Len(v) <= 2)
                  /\ \A q \in InputValues :
                         (\E r \in pending' \ pending : r.query = q) <=>
                             (q = v /\ Len(v) > 2)
       /\ nProcessed' > 0 => suggestionsList' = lastData']_vars

\* C10 witness: two requests were in flight, the response of the second was
\* processed first and that of the first after it, and the list holds the
\* two items of the first request's response.
C10_Witness ==
    /\ nProcessed = 2
    /\ nIssued = 2
    /\ lastId = 1
    /\ value = <<"e", "e", "v">>
    /\ suggestionsList = <<<<"p", "i", "k">>, <<"p", "i", "k", "2">>>>

====
